---- MODULE Spec2Model ----
(***************************************************************************)
(* Accredis backend (src/backend/server.py): the request handlers of the   *)
(* FastAPI application over the five MongoDB collections users, clinics,   *)
(* documents, risks and audits.                                            *)
(*                                                                         *)
(* A collection is the sequence of its documents in insertion order; a     *)
(* stored document is a function from field names to values, so a field    *)
(* that was never written is absent from its DOMAIN, as in MongoDB.        *)
(* Strings that the code concatenates or scans (ids, content, titles) are  *)
(* sequences of one-character strings.  Time is a clock of ticks, of which  *)
(* TicksPerSecond make a second; every datetime.utcnow() call is a         *)
(* separate reading of it.                                                 *)
(*                                                                         *)
(* tokens is what the clients hold: the TokenResponses of register and     *)
(* login that a client kept.  inflight is the requests that a handler has  *)
(* begun and not finished: a handler gives up control at every await, and  *)
(* the steps of another request can run there.                             *)
(***************************************************************************)
EXTENDS Integers, Sequences, FiniteSets, TLC

VARIABLES users, clinics, documents, risks, audits, api_key, now, resp,
          tokens, inflight

vars == <<users, clinics, documents, risks, audits, api_key, now, resp,
         tokens, inflight>>

(***************************************************************************)
(* Bounds of the model.                                                    *)
(***************************************************************************)
\* The number of documents the store holds, over all five collections.
MaxRecords == 3
\* The last tick of the clock that a reading inside a request can move it
\* to; past it, time passes between requests only.
MaxClock == 1
\* The number of TokenResponses the clients keep.
MaxTokens == 1
\* The number of requests that can be in flight together.
MaxInFlight == 2
\* The resolution of the clock: the ticks in a second.
TicksPerSecond == 2
\* The length of the canonical form of a UUID, which is 36 in Python.
IdWidth == 2
\* The length of the longest content that is hashed on its own.
MaxText == 2

(***************************************************************************)
(* Values.                                                                 *)
(***************************************************************************)
\* Python's None.
NULL == <<"None">>

\* Python's None where a stored document (a dict) is expected: the result
\* of a find_one that matched nothing.
NoDocument == [none |-> TRUE]

\* JWT_SECRET, and the key of a token the server did not sign.
JWT_SECRET == "secret"
OtherSecret == "forged"

\* The days of timedelta(days=7).
TokenDays == 7

SecondsPerDay == 86400

\* timedelta(days=n), in ticks.
timedelta(days) == days * SecondsPerDay * TicksPerSecond

\* timegm(d.utctimetuple()): the whole seconds of a time, which is how
\* jwt.encode writes a datetime into a payload and how jwt.decode reads
\* the clock.
timegm(t) == t \div TicksPerSecond

\* The 20MB limit of upload_document, in bytes.
MaxFileSize == 20971520

\* to_list(100)
ListLimit == 100

Range(s) == {s[i] : i \in 1..Len(s)}

\* The number of documents in the store.
RecordCount == Len(users) + Len(clinics) + Len(documents) + Len(risks) + Len(audits)

\* if x: for an optional string.
Truthy(x) == x # NULL /\ x # <<>>

Min(a, b) == IF a <= b THEN a ELSE b

\* datetime.utcnow(): the values a reading can have when the last reading
\* was t.
utcnow(t) == t..(IF t < MaxClock THEN MaxClock ELSE t)

\* The times to which the clock moves between requests: a second before
\* the seventh day after the application started, the ticks of that day
\* at which a token of the first MaxClock ticks expires, and a day later.
Instants ==
    {timedelta(TokenDays) - TicksPerSecond, timedelta(TokenDays + 1) + MaxClock}
    \cup {timedelta(TokenDays) + k : k \in 0..MaxClock}

\* The slots of the requests in flight, and the value of a free slot.
Slots == 1..MaxInFlight
Idle == [pc |-> "idle"]

\* The first n elements of a cursor: to_list(n).
to_list(s, n) == SubSeq(s, 1, Min(Len(s), n))

\* str(n) for a natural number, as characters.
DigitChar(d) == <<"0", "1", "2", "3", "4", "5", "6", "7", "8", "9">>[d + 1]

RECURSIVE Digits(_)
Digits(n) == IF n < 10 THEN <<DigitChar(n)>>
                       ELSE Digits(n \div 10) \o <<DigitChar(n % 10)>>

\* str(uuid.uuid4()): an identifier no earlier document of the collection
\* has; the n-th one of a collection is its prefix followed by n.
uuid4(prefix, coll) == <<prefix>> \o Digits(Len(coll) + 1)

\* datetime.isoformat()
isoformat(t) == <<"T">> \o Digits(t)

\* hashlib.sha256(data).hexdigest(), taken as injective: the digest is
\* identified with the data it was computed over.
sha256(data) == <<"sha256", data>>

\* bcrypt: the digest of a password under a salt, and its verification.
hash_password(password, salt) == <<"bcrypt", salt, password>>

\* Mutant: every password verifies.
verify_password_any(password, hashed) == TRUE

verify_password(password, hashed) == hashed = hash_password(password, hashed[2])

\* db.<coll>.find_one({field: value}): the first document that matches,
\* None when there is none.
find_one(coll, field, value) ==
    LET hits == {i \in 1..Len(coll) : coll[i][field] = value}
    IN  IF hits = {} THEN NoDocument
        ELSE coll[CHOOSE i \in hits : \A j \in hits : i <= j]

\* The effect of {"$set": update} on one stored document.
set_fields(doc, update) ==
    [k \in DOMAIN doc \cup DOMAIN update |->
        IF k \in DOMAIN update THEN update[k] ELSE doc[k]]

\* db.<coll>.update_one({"id": id}, {"$set": update}): the first document
\* with that id gets the fields of update, all others stay.
update_one(coll, id, update) ==
    LET hits == {i \in 1..Len(coll) : coll[i]["id"] = id}
        first == CHOOSE i \in hits : \A j \in hits : i <= j
    IN  IF hits = {} THEN coll
        ELSE [coll EXCEPT ![first] = set_fields(coll[first], update)]

(***************************************************************************)
(* Tokens and authentication.                                              *)
(***************************************************************************)
\* Mutant: a token of six days.
create_jwt_token_six_days(user_id, clinic_id, t) ==
    [user_id |-> user_id, clinic_id |-> clinic_id, exp |-> timegm(t + timedelta(6)), key |-> JWT_SECRET]

\* The payload that jwt.encode signs with JWT_SECRET, for the reading t of
\* the clock; exp is written in whole seconds.
create_jwt_token(user_id, clinic_id, t) ==
    [user_id |-> user_id, clinic_id |-> clinic_id,
     exp |-> timegm(t + timedelta(TokenDays)), key |-> JWT_SECRET]

\* What the try block of get_current_user raises for the bearer token
\* tok decoded at time t: jwt.decode raises DecodeError for a token that
\* is not one the server signed and ExpiredSignatureError for one whose
\* exp is not after the second of t; the block itself raises
\* HTTPException(401) for a
\* payload without user_id and for a user_id that no stored user has.
raised_in_try(tok, t) ==
    IF tok.key # JWT_SECRET THEN "DecodeError"
    ELSE IF tok.exp <= timegm(t) THEN "ExpiredSignatureError"
    ELSE IF ~Truthy(tok.user_id) THEN "HTTPException"
    ELSE IF find_one(users, "id", tok.user_id) = NoDocument THEN "HTTPException"
    ELSE "none"

\* The outcome of the Depends(get_current_user) of a handler.  The module
\* jwt with encode, decode(..., algorithms=) and ExpiredSignatureError is
\* PyJWT, which has no attribute JWTError.  An exception that is not an
\* ExpiredSignatureError passes the first except clause and reaches the
\* second, whose expression jwt.JWTError raises AttributeError when it is
\* evaluated; that one leaves the function and the framework answers 500.
get_current_user(tok, t) ==
    LET raised == raised_in_try(tok, t)
    IN  IF raised = "none"
        THEN [ok |-> TRUE, user |-> find_one(users, "id", tok.user_id)]
        ELSE IF raised = "ExpiredSignatureError"
        THEN [ok |-> FALSE, code |-> 401, detail |-> "Token expired"]
        ELSE [ok |-> FALSE, code |-> 500, detail |-> "Internal Server Error"]

\* The bearer tokens a client can present at time t: one that register or
\* login issued to a stored user at some time up to t (login writes
\* nothing, so every stored user can have logged in at any time since its
\* registration), or one not signed with JWT_SECRET.
PresentableTokens(t) ==
    UNION {{create_jwt_token(u["id"], u["clinic_id"], iat) :
                iat \in {t}} : u \in Range(users)}
    \cup {[user_id |-> NULL, clinic_id |-> NULL,
           exp |-> timegm(t + timedelta(TokenDays)), key |-> OtherSecret]}

\* A failed response: HTTPException(status_code=code, detail=detail), and
\* the function that raised it.  The dependency get_current_user raises
\* before the handler itself is called.
Error(op, code, detail) == [op |-> op, code |-> code, detail |-> detail]

(***************************************************************************)
(* Inputs of the requests.                                                 *)
(***************************************************************************)
Emails == {"a@x.org", "b@x.org"}
Passwords == {"pw"}
Salts == {1}

\* A clinic id a request can name: that of a stored clinic, or one that no
\* stored clinic has; register, create_risk and upload_document accept
\* either.
ClinicIdInputs == {<<"c", "0">>} \cup {c["id"] : c \in Range(clinics)}

\* An id that no stored document has.
UnknownId == <<"x", "0">>

(***************************************************************************)
(* POST /auth/register                                                     *)
(***************************************************************************)
\* Mutant: the lookup by email left out.
email_registered_unchecked(email) == FALSE

\* if await db.users.find_one({"email": user_data.email})
email_registered(email) == find_one(users, "email", email) # NoDocument

\* user_doc of register
new_user(user_id, email, clinic_id, hashed_password, t) ==
    [id |-> user_id,
     email |-> email,
     first_name |-> "Test",
     last_name |-> "User",
     role |-> "staff",
     clinic_id |-> clinic_id,
     password_hash |-> hashed_password,
     created_at |-> t,
     is_active |-> TRUE]

\* UserResponse(**{k: v for k, v in user.items() if k != "password_hash"})
UserResponse(user) == [k \in DOMAIN user \ {"password_hash"} |-> user[k]]

register ==
    \E email \in Emails :
        IF email_registered(email)
        THEN /\ resp' = [op |-> "register", code |-> 400,
                         detail |-> "Email already registered", email |-> email]
             /\ UNCHANGED <<users, clinics, documents, risks, audits, api_key, now, tokens, inflight>>
        ELSE /\ RecordCount < MaxRecords
             /\ \E password \in Passwords, salt \in Salts,
                   clinic_id \in {NULL, <<"c", "0">>},
                   t1 \in utcnow(now) :
                \E t2 \in utcnow(t1) :
                   LET user_id == uuid4("u", users)
                       user_doc == new_user(user_id, email, clinic_id,
                                            hash_password(password, salt), t1)
                   IN  /\ users' = Append(users, user_doc)
                       /\ now' = t2
                       /\ resp' = [op |-> "register", code |-> 200, detail |-> "",
                                   email |-> email, issued_at |-> t2,
                                   access_token |->
                                       create_jwt_token(user_id, clinic_id, t2),
                                   user |-> UserResponse(user_doc)]
                       /\ UNCHANGED <<clinics, documents, risks, audits, api_key, tokens, inflight>>

\* The free slot a new request takes.
FreeSlot == CHOOSE s \in Slots : inflight[s] = Idle /\ \A r \in Slots : inflight[r] = Idle => s <= r

(***************************************************************************)
(* POST /auth/register as the event loop runs it: the handler gives up     *)
(* control at await db.users.find_one and at await db.users.insert_one,    *)
(* and the database applies the lookup and the insert one after the other, *)
(* with the steps of other requests in between.                            *)
(***************************************************************************)
\* The handler up to the lookup by email.
register_find_one ==
    /\ \E s \in Slots : inflight[s] = Idle
    /\ \E email \in Emails :
        IF email_registered(email)
        THEN /\ resp' = [op |-> "register", code |-> 400,
                         detail |-> "Email already registered", email |-> email]
             /\ UNCHANGED <<users, clinics, documents, risks, audits, api_key, now, tokens, inflight>>
        ELSE /\ inflight' = [inflight EXCEPT ![FreeSlot] = [pc |-> "register", email |-> email]]
             /\ UNCHANGED <<users, clinics, documents, risks, audits, api_key, now, resp, tokens>>

\* Lines 293 to 313: the user document, the insert and the response.
register_insert_one ==
    \E s \in Slots :
        /\ inflight[s].pc = "register"
        /\ RecordCount < MaxRecords
        /\ \E password \in Passwords, salt \in Salts,
              clinic_id \in {NULL, <<"c", "0">>},
              t1 \in utcnow(now) :
           \E t2 \in utcnow(t1) :
              LET email == inflight[s].email
                  user_id == uuid4("u", users)
                  user_doc == new_user(user_id, email, clinic_id,
                                       hash_password(password, salt), t1)
              IN  /\ users' = Append(users, user_doc)
                  /\ now' = t2
                  /\ resp' = [op |-> "register", code |-> 200, detail |-> "",
                              email |-> email, issued_at |-> t2,
                              access_token |->
                                  create_jwt_token(user_id, clinic_id, t2),
                              user |-> UserResponse(user_doc)]
                  /\ inflight' = [inflight EXCEPT ![s] = Idle]
                  /\ UNCHANGED <<clinics, documents, risks, audits, api_key, tokens>>

(***************************************************************************)
(* POST /auth/login                                                        *)
(***************************************************************************)
\* The passwords a login can carry: those of the registrations and one
\* that no user registered with.
LoginPasswords == Passwords \cup {"wrong"}

\* user.get("is_active", True)
is_active(user) == IF "is_active" \in DOMAIN user THEN user["is_active"] ELSE TRUE

\* A login that raised: the response, and the credentials of the request.
LoginRaise(code, detail, email, password) ==
    /\ resp' = [op |-> "login", code |-> code, detail |-> detail, email |-> email, password |-> password]
    /\ UNCHANGED <<users, clinics, documents, risks, audits, api_key, now, tokens, inflight>>

login ==
    \E email \in Emails, password \in LoginPasswords :
        LET user == find_one(users, "email", email)
        IN  IF user = NoDocument \/ ~verify_password(password, user["password_hash"])
            THEN LoginRaise(401, "Invalid credentials", email, password)
            ELSE IF ~is_active(user)
            THEN LoginRaise(401, "Account deactivated", email, password)
            ELSE \E t \in utcnow(now) :
                    /\ now' = t
                    /\ resp' = [op |-> "login", code |-> 200, detail |-> "",
                                email |-> email, password |-> password,
                                issued_at |-> t,
                                access_token |->
                                    create_jwt_token(user["id"], user["clinic_id"], t),
                                user |-> UserResponse(user)]
                    /\ UNCHANGED <<users, clinics, documents, risks, audits, api_key, tokens, inflight>>

(***************************************************************************)
(* The client: it keeps the access_token of a TokenResponse, as the test   *)
(* client does, and presents a token it kept.                              *)
(***************************************************************************)
\* self.token = response['access_token'], after a register or a login
\* that succeeded; a client that holds MaxTokens of them drops one.  With
\* the token the record has the operation that issued it and the reading
\* of the clock it was issued at.
keep_token ==
    /\ resp.op \in {"register", "login"}
    /\ resp.code = 200
    /\ \E kept \in SUBSET tokens :
          /\ Cardinality(kept) < MaxTokens
          /\ tokens' = kept \cup {[access_token |-> resp.access_token, op |-> resp.op, issued_at |-> resp.issued_at]}
    /\ UNCHANGED <<users, clinics, documents, risks, audits, api_key, now, resp, inflight>>

\* A token the server did not sign.
ForgedToken(t) == [user_id |-> NULL, clinic_id |-> NULL, exp |-> timegm(t + timedelta(TokenDays)), key |-> OtherSecret]

(***************************************************************************)
(* GET /auth/me, with a token that a client kept or one that the server    *)
(* did not sign.                                                           *)
(***************************************************************************)
get_current_user_info ==
    \E tok \in {k.access_token : k \in tokens} \cup {ForgedToken(now)} :
        LET auth == get_current_user(tok, now)
        IN  /\ resp' = IF ~auth.ok
                       THEN [op |-> "get_current_user", code |-> auth.code,
                             detail |-> auth.detail, token |-> tok]
                       ELSE [op |-> "get_current_user_info", code |-> 200,
                             detail |-> "", token |-> tok,
                             user |-> UserResponse(auth.user)]
            /\ UNCHANGED <<users, clinics, documents, risks, audits, api_key, now, tokens, inflight>>

\* Time passing between two requests.
Elapse ==
    /\ \E t \in Instants : t > now /\ now' = t
    /\ UNCHANGED <<users, clinics, documents, risks, audits, api_key, resp, tokens, inflight>>

\* The response of a handler whose Depends(get_current_user) raised.
Unauthenticated(auth) ==
    /\ resp' = Error("get_current_user", auth.code, auth.detail)
    /\ UNCHANGED <<users, clinics, documents, risks, audits, api_key, now, tokens, inflight>>

\* The response of a handler that raised HTTPException before writing.
Raise(op, code, detail) ==
    /\ resp' = Error(op, code, detail)
    /\ UNCHANGED <<users, clinics, documents, risks, audits, api_key, now, tokens, inflight>>

(***************************************************************************)
(* POST /clinics                                                           *)
(***************************************************************************)
Lower(c) == CASE c = "G" -> "g" [] c = "P" -> "p" [] OTHER -> c

IsAlnum(c) == c \in {"G", "P", "g", "p", "a", "b", "1", "2"}

RECURSIVE Hyphenate(_)
\* Lower-cased, every run of other characters replaced by one "-", with a
\* leading "-" still in place.
Hyphenate(s) ==
    IF s = <<>> THEN <<>>
    ELSE LET rest == Hyphenate(Tail(s))
         IN  IF IsAlnum(Head(s)) THEN <<Lower(Head(s))>> \o rest
             ELSE IF rest # <<>> /\ Head(rest) = "-" THEN rest
             ELSE <<"-">> \o rest

\* slugify(name)
slugify(name) ==
    LET h == Hyphenate(name)
        a == IF h # <<>> /\ Head(h) = "-" THEN Tail(h) ELSE h
    IN  IF a # <<>> /\ a[Len(a)] = "-" THEN SubSeq(a, 1, Len(a) - 1) ELSE a

ClinicNames == {<<"G", " ", "P">>}

\* Mutant: the owner recorded by email.
new_clinic_owner_email(clinic_id, name, current_user, t) ==
    [id |-> clinic_id,
     slug |-> slugify(name),
     name |-> name,
     abn |-> NULL,
     address |-> "1 Test St",
     state |-> "NSW",
     phone |-> NULL,
     email |-> NULL,
     owner_id |-> current_user["email"],
     created_at |-> t]

\* clinic_doc of create_clinic
new_clinic(clinic_id, name, current_user, t) ==
    [id |-> clinic_id,
     slug |-> slugify(name),
     name |-> name,
     abn |-> NULL,
     address |-> "1 Test St",
     state |-> "NSW",
     phone |-> NULL,
     email |-> NULL,
     owner_id |-> current_user["id"],
     created_at |-> t]

create_clinic ==
    \E tok \in PresentableTokens(now) :
        LET auth == get_current_user(tok, now)
            current_user == auth.user
        IN  IF ~auth.ok THEN Unauthenticated(auth)
            ELSE /\ RecordCount < MaxRecords
                 /\ \E name \in ClinicNames, t \in utcnow(now) :
                   LET clinic_id == uuid4("c", clinics)
                       clinic_doc == new_clinic(clinic_id, name, current_user, t)
                   IN  /\ clinics' = Append(clinics, clinic_doc)
                       /\ users' = update_one(users, current_user["id"],
                                              [clinic_id |-> clinic_id])
                       /\ now' = t
                       /\ resp' = [op |-> "create_clinic", code |-> 200, detail |-> "",
                                   clinic |-> clinic_doc]
                       /\ UNCHANGED <<documents, risks, audits, api_key, tokens, inflight>>

(***************************************************************************)
(* POST /clinics as the event loop runs it: the handler gives up control   *)
(* at await db.clinics.insert_one and at await db.users.update_one, and    *)
(* the database applies the two writes one after the other, with the steps *)
(* of other requests in between.                                           *)
(***************************************************************************)
\* The handler up to the first write: the clinic is stored.
create_clinic_insert_one ==
    /\ \E s \in Slots : inflight[s] = Idle
    /\ \E tok \in PresentableTokens(now) :
        LET auth == get_current_user(tok, now)
            current_user == auth.user
        IN  IF ~auth.ok THEN Unauthenticated(auth)
            ELSE /\ RecordCount < MaxRecords
                 /\ \E name \in ClinicNames, t \in utcnow(now) :
                     LET clinic_doc == new_clinic(uuid4("c", clinics), name, current_user, t)
                     IN  /\ clinics' = Append(clinics, clinic_doc)
                         /\ now' = t
                         /\ inflight' = [inflight EXCEPT ![FreeSlot] =
                                [pc |-> "create_clinic", user_id |-> current_user["id"],
                                 clinic_doc |-> clinic_doc]]
                         /\ UNCHANGED <<users, documents, risks, audits, api_key, resp, tokens>>

\* The second write and the response.
create_clinic_update_one ==
    \E s \in Slots :
        /\ inflight[s].pc = "create_clinic"
        /\ users' = update_one(users, inflight[s].user_id,
                               [clinic_id |-> inflight[s].clinic_doc["id"]])
        /\ resp' = [op |-> "create_clinic", code |-> 200, detail |-> "",
                    clinic |-> inflight[s].clinic_doc]
        /\ inflight' = [inflight EXCEPT ![s] = Idle]
        /\ UNCHANGED <<clinics, documents, risks, audits, api_key, now, tokens>>

(***************************************************************************)
(* The AI gateway.                                                         *)
(***************************************************************************)
\* What chat.send_message does when it is called: it returns a text or
\* raises.
AIFailure == <<"raise">>
AIReplies == {<<"#", " ", "a", "\n", "b">>}

\* generate_ai_document: the HTTPException of the missing key is raised
\* inside the try block, so the except clause catches it like every
\* other exception and raises its own.
generate_ai_document(reply) ==
    LET raised == IF ~api_key
                  THEN [code |-> 500, detail |-> "AI service not configured"]
                  ELSE IF reply = AIFailure
                  THEN [code |-> 500, detail |-> "send_message failed"]
                  ELSE [code |-> 0, detail |-> ""]
    IN  IF raised.code # 0
        THEN [ok |-> FALSE, code |-> 500, detail |-> "Document generation failed"]
        ELSE [ok |-> TRUE, text |-> reply]

\* audit_document: the same shape; on success the reply is discarded and
\* the fixed result returned.
audit_document(content, jurisdiction, reply) ==
    LET raised == IF ~api_key
                  THEN [code |-> 500, detail |-> "AI service not configured"]
                  ELSE IF reply = AIFailure
                  THEN [code |-> 500, detail |-> "send_message failed"]
                  ELSE [code |-> 0, detail |-> ""]
    IN  IF raised.code # 0
        THEN [ok |-> FALSE, code |-> 500, detail |-> "Document audit failed"]
        ELSE [ok |-> TRUE,
              result |-> [document_id |-> <<>>,
                          score |-> 85,
                          compliance_issues |-> <<>>,
                          recommendations |-> <<"Review and update annually",
                                                "Ensure staff training">>,
                          racgp_coverage |-> [Standard_1 |-> TRUE,
                                              Standard_2 |-> TRUE]]]

(***************************************************************************)
(* Title extraction of generate_document.                                  *)
(***************************************************************************)
\* The slice length of the fallback title.
TitleLimit == 100

Whitespace == {" ", "\n", "\t"}
\* The backquote character, which a TLA+ string cannot hold.
Backquote == "backquote"
Markup == {"#", "*", "_", Backquote}

Max(S) == CHOOSE x \in S : \A y \in S : y <= x

\* The number of consecutive characters of s from position p on that are
\* in the set S.
Run(s, p, S) ==
    Max({e \in (p - 1)..Len(s) : \A i \in p..e : s[i] \in S}) - p + 1

\* The last position of the line that position q lies on or starts.
LineEnd(s, q) == q - 1 + Run(s, q, {s[i] : i \in 1..Len(s)} \ {"\n"})

\* str.strip()
strip(s) ==
    LET a == Run(s, 1, Whitespace)
        keep == {e \in a..Len(s) : e = a \/ s[e] \notin Whitespace}
    IN  SubSeq(s, a + 1, Max(keep))

\* re.sub of the characters # * _ and backquote by nothing
NotMarkup(c) == c \notin Markup

remove_markup(s) == SelectSeq(s, NotMarkup)

\* The match of #+\s*(.+)$ that starts at position p, as the regex engine
\* finds it: as many "#" as possible, then as much whitespace as possible,
\* then at least one character other than a newline up to the end of the
\* line; giving back whitespace and then "#" until that succeeds.
MatchAt(s, p) ==
    LET h == Run(s, p, {"#"})
        w == Run(s, p + h, Whitespace)
        bs == {b \in 0..w : p + h + b <= Len(s) /\ s[p + h + b] # "\n"}
        q == IF bs # {} THEN p + h + Max(bs) ELSE p + h - 1
    IN  IF h = 0 \/ (bs = {} /\ h < 2)
        THEN [matched |-> FALSE]
        ELSE [matched |-> TRUE, group |-> SubSeq(s, q, LineEnd(s, q))]

\* re.search(r'^#+\s*(.+)$', s, re.MULTILINE): the match at the first line
\* start that has one.
title_match(s) ==
    LET starts == {p \in 1..Len(s) :
                      /\ p = 1 \/ s[p - 1] = "\n"
                      /\ MatchAt(s, p).matched}
    IN  IF starts = {} THEN [matched |-> FALSE]
        ELSE MatchAt(s, CHOOSE p \in starts : \A r \in starts : p <= r)

\* ai_content.split('.')[0]
first_sentence(s) == SubSeq(s, 1, Run(s, 1, {s[i] : i \in 1..Len(s)} \ {"."}))

\* Mutant: the fallback title cut without the ellipsis.
extracted_title_without_ellipsis(ai_content) ==
    LET m == title_match(ai_content)
        sentence == first_sentence(ai_content)
        raw == IF m.matched THEN strip(m.group)
               ELSE IF Len(sentence) > TitleLimit
               THEN SubSeq(sentence, 1, TitleLimit)
               ELSE sentence
    IN  strip(remove_markup(raw))

extracted_title(ai_content) ==
    LET m == title_match(ai_content)
        sentence == first_sentence(ai_content)
        raw == IF m.matched THEN strip(m.group)
               ELSE IF Len(sentence) > TitleLimit
               THEN SubSeq(sentence, 1, TitleLimit) \o <<".", ".", ".">>
               ELSE sentence
    IN  strip(remove_markup(raw))

(***************************************************************************)
(* POST /documents/generate                                                *)
(***************************************************************************)
DRAFT == "draft"
REVIEW == "review"
PUBLISHED == "published"
ARCHIVED == "archived"

Categories == {"policy"}
Jurisdictions == {"national"}

\* Mutant: the generated document inserted in review.
generated_doc_in_review(doc_id, ai_content, request, current_user, t1, t2) ==
    [id |-> doc_id,
     title |-> <<>>,
     content |-> ai_content,
     category |-> request.category,
     jurisdiction |-> request.jurisdiction,
     clinic_id |-> request.clinic_id,
     status |-> "review",
     version |-> 1,
     tags |-> <<>>,
     created_by |-> current_user["id"],
     created_at |-> t1,
     updated_at |-> t2]

\* doc of generate_document, for the DocumentGenerationRequest request;
\* t1 and t2 are the two readings of the clock.
generated_doc(doc_id, ai_content, request, current_user, t1, t2) ==
    [id |-> doc_id,
     title |-> extracted_title(ai_content),
     content |-> ai_content,
     category |-> request.category,
     jurisdiction |-> request.jurisdiction,
     clinic_id |-> request.clinic_id,
     status |-> DRAFT,
     version |-> 1,
     tags |-> <<>>,
     created_by |-> current_user["id"],
     created_at |-> t1,
     updated_at |-> t2]

generate_document ==
    \E tok \in PresentableTokens(now) :
        LET auth == get_current_user(tok, now)
            current_user == auth.user
        IN  IF ~auth.ok THEN Unauthenticated(auth)
            ELSE \E clinic_id \in ClinicIdInputs,
                    reply \in AIReplies \cup {AIFailure} :
                LET clinic == find_one(clinics, "id", clinic_id)
                    ai == generate_ai_document(reply)
                IN  IF clinic = NoDocument
                    THEN Raise("generate_document", 404, "Clinic not found")
                    ELSE IF ~ai.ok
                    THEN Raise("generate_document", ai.code, ai.detail)
                    ELSE /\ RecordCount < MaxRecords
                         /\ \E category \in Categories,
                               jurisdiction \in Jurisdictions,
                               t1 \in utcnow(now) :
                            \E t2 \in utcnow(t1) :
                               LET request == [category |-> category,
                                               jurisdiction |-> jurisdiction,
                                               clinic_id |-> clinic_id]
                                   doc == generated_doc(uuid4("d", documents),
                                              ai.text, request, current_user,
                                              t1, t2)
                               IN  /\ documents' = Append(documents, doc)
                                   /\ now' = t2
                                   /\ resp' = [op |-> "generate_document",
                                               code |-> 200, detail |-> "",
                                               id |-> doc["id"]]
                                   /\ UNCHANGED <<users, clinics, risks, audits, api_key, tokens, inflight>>

(***************************************************************************)
(* POST /documents/upload                                                  *)
(***************************************************************************)
\* An uploaded file: its name, its size in bytes, and the text that the
\* reader of its content type extracts, or Unreadable when that raises.
Unreadable == <<"raise">>

Files ==
    {[filename |-> <<"f">>, size |-> 3, text |-> <<"a", "b">>],
     [filename |-> <<"f">>, size |-> MaxFileSize, text |-> Unreadable],
     [filename |-> <<"g">>, size |-> MaxFileSize + 1, text |-> <<"a">>]}

\* doc of upload_document, for the form fields of the request
uploaded_doc(doc_id, file, form, current_user, t1, t2) ==
    [id |-> doc_id,
     title |-> file.filename,
     content |-> file.text,
     category |-> form.category,
     jurisdiction |-> form.jurisdiction,
     clinic_id |-> form.clinic_id,
     status |-> DRAFT,
     version |-> 1,
     tags |-> <<"uploaded">>,
     created_by |-> current_user["id"],
     created_at |-> t1,
     updated_at |-> t2]

upload_document ==
    \E tok \in PresentableTokens(now) :
        LET auth == get_current_user(tok, now)
            current_user == auth.user
        IN  IF ~auth.ok THEN Unauthenticated(auth)
            ELSE \E file \in Files :
                IF file.size > MaxFileSize
                THEN Raise("upload_document", 400, "File too large")
                ELSE IF file.text = Unreadable
                THEN Raise("upload_document", 400, "Failed to process file")
                ELSE /\ RecordCount < MaxRecords
                     /\ \E clinic_id \in ClinicIdInputs,
                           category \in Categories,
                           jurisdiction \in Jurisdictions,
                           t1 \in utcnow(now) :
                        \E t2 \in utcnow(t1) :
                           LET form == [category |-> category,
                                        jurisdiction |-> jurisdiction,
                                        clinic_id |-> clinic_id]
                               doc == uploaded_doc(uuid4("d", documents), file,
                                          form, current_user, t1, t2)
                           IN  /\ documents' = Append(documents, doc)
                               /\ now' = t2
                               /\ resp' = [op |-> "upload_document", code |-> 200,
                                           detail |-> "Document uploaded successfully",
                                           id |-> doc["id"]]
                               /\ UNCHANGED <<users, clinics, risks, audits, api_key, tokens, inflight>>

(***************************************************************************)
(* GET /documents                                                          *)
(***************************************************************************)
\* Whether a stored document matches a query of field values.
matches(doc, query) ==
    \A k \in DOMAIN query : k \in DOMAIN doc /\ doc[k] = query[k]

\* find(query): the matching documents in storage order.
RECURSIVE find(_, _)
find(coll, query) ==
    IF coll = <<>> THEN <<>>
    ELSE IF matches(Head(coll), query)
    THEN <<Head(coll)>> \o find(Tail(coll), query)
    ELSE find(Tail(coll), query)

\* sort(field, -1): descending by the field; documents with equal values
\* keep their storage order.
RECURSIVE insert_desc(_, _, _)
insert_desc(sorted, doc, field) ==
    IF sorted = <<>> THEN <<doc>>
    ELSE IF Head(sorted)[field] >= doc[field]
    THEN <<Head(sorted)>> \o insert_desc(Tail(sorted), doc, field)
    ELSE <<doc>> \o sorted

RECURSIVE sort_desc(_, _)
sort_desc(coll, field) ==
    IF coll = <<>> THEN <<>>
    ELSE insert_desc(sort_desc(SubSeq(coll, 1, Len(coll) - 1), field),
                     coll[Len(coll)], field)

\* query of get_documents and of get_risks: the clinic of the request if
\* it names one, else the clinic of the user if it has one, else none.
clinic_scope(clinic_id, current_user) ==
    IF Truthy(clinic_id) THEN [clinic_id |-> clinic_id]
    ELSE IF Truthy(current_user["clinic_id"])
    THEN [clinic_id |-> current_user["clinic_id"]]
    ELSE <<>>

\* query of get_documents; "" is a status or category the request leaves
\* out.
documents_query(clinic_id, status, category, current_user) ==
    set_fields(set_fields(clinic_scope(clinic_id, current_user),
                          IF status # "" THEN [status |-> status] ELSE <<>>),
               IF category # "" THEN [category |-> category] ELSE <<>>)

get_documents ==
    \E tok \in PresentableTokens(now) :
        LET auth == get_current_user(tok, now)
            current_user == auth.user
        IN  IF ~auth.ok THEN Unauthenticated(auth)
            ELSE \E clinic_id \in {NULL} \cup ClinicIdInputs,
                    status \in {""}, category \in {""} :
                LET query == documents_query(clinic_id, status, category,
                                             current_user)
                    found == to_list(sort_desc(find(documents, query),
                                               "created_at"), ListLimit)
                IN  /\ resp' = [op |-> "get_documents", code |-> 200,
                                detail |-> "", documents |-> found]
                    /\ UNCHANGED <<users, clinics, documents, risks, audits,
                                   api_key, now, tokens, inflight>>

(***************************************************************************)
(* PUT /documents/{doc_id}/status                                          *)
(***************************************************************************)
\* Mutant: a fifth value in the list.
valid_statuses_with_deleted == {DRAFT, REVIEW, PUBLISHED, ARCHIVED, "deleted"}

\* Mutant: archived left out of the list.
valid_statuses_without_archived == {DRAFT, REVIEW, PUBLISHED}

valid_statuses == {DRAFT, REVIEW, PUBLISHED, ARCHIVED}

\* The status values a request can carry: the four of DocumentStatus and
\* one that is none of them.
StatusInputs == {"draft", "review", "published", "archived", "deleted"}

\* Mutant: the actor left out of the hashed data.
create_document_hash_without_actor(content, user_id, timestamp) ==
    sha256(content \o isoformat(timestamp))

create_document_hash(content, user_id, timestamp) ==
    sha256(content \o user_id \o isoformat(timestamp))

\* Mutant: the signature written on every transition.
status_update_data_always_signs(status, doc, current_user, t1, t2, t3) ==
    [status |-> status,
     updated_at |-> t1,
     signature_hash |->
         sha256(doc["content"] \o current_user["id"] \o isoformat(t2)),
     signed_by |-> current_user["id"],
     signed_at |-> t3]

\* Mutant: the version counted up on every transition.
status_update_data_bumps_version(status, doc, current_user, t1, t2, t3) ==
    IF status = PUBLISHED
    THEN [status |-> status,
          updated_at |-> t1,
          version |-> doc["version"] + 1,
          signature_hash |->
              sha256(doc["content"] \o current_user["id"] \o isoformat(t2)),
          signed_by |-> current_user["id"],
          signed_at |-> t3]
    ELSE [status |-> status, updated_at |-> t1, version |-> doc["version"] + 1]

\* Mutant: a document that the request read as signed is not signed again.
status_update_data_signs_once(status, doc, current_user, t1, t2, t3) ==
    IF status = PUBLISHED /\ "signed_by" \notin DOMAIN doc
    THEN [status |-> status,
          updated_at |-> t1,
          signature_hash |->
              sha256(doc["content"] \o current_user["id"] \o isoformat(t2)),
          signed_by |-> current_user["id"],
          signed_at |-> t3]
    ELSE [status |-> status, updated_at |-> t1]

\* update_data of update_document_status.  t1, t2 and t3 are the readings
\* of the three datetime.utcnow() calls, in the order the code makes them:
\* for updated_at, for the hash, and for signed_at.
status_update_data(status, doc, current_user, t1, t2, t3) ==
    IF status = PUBLISHED
    THEN [status |-> status,
          updated_at |-> t1,
          signature_hash |->
              create_document_hash(doc["content"], current_user["id"], t2),
          signed_by |-> current_user["id"],
          signed_at |-> t3]
    ELSE [status |-> status, updated_at |-> t1]

\* A request of update_document_status that raised: the response, and the
\* status and the document id the request carried.
StatusRaise(code, detail, status, doc_id) ==
    /\ resp' = [op |-> "update_document_status", code |-> code,
                detail |-> detail, status |-> status, doc_id |-> doc_id]
    /\ UNCHANGED <<users, clinics, documents, risks, audits, api_key, now, tokens, inflight>>

update_document_status ==
    \E tok \in PresentableTokens(now) :
        LET auth == get_current_user(tok, now)
            current_user == auth.user
        IN  IF ~auth.ok THEN Unauthenticated(auth)
            ELSE \E status \in StatusInputs,
                    doc_id \in {d["id"] : d \in Range(documents)} \cup {UnknownId} :
                LET doc == find_one(documents, "id", doc_id)
                IN  IF status \notin valid_statuses
                    THEN StatusRaise(400, "Invalid status", status, doc_id)
                    ELSE IF doc = NoDocument
                    THEN StatusRaise(404, "Document not found", status, doc_id)
                    ELSE \E t1 \in utcnow(now) :
                         \E t2 \in IF status = PUBLISHED THEN utcnow(t1) ELSE {t1} :
                         \E t3 \in IF status = PUBLISHED THEN utcnow(t2) ELSE {t1} :
                            /\ documents' = update_one(documents, doc_id,
                                   status_update_data(status, doc, current_user,
                                                      t1, t2, t3))
                            /\ now' = t3
                            /\ resp' = [op |-> "update_document_status",
                                        code |-> 200,
                                        detail |-> "Document status updated",
                                        status |-> status,
                                        doc_id |-> doc_id,
                                        actor |-> current_user["id"]]
                            /\ UNCHANGED <<users, clinics, risks, audits, api_key, tokens, inflight>>

(***************************************************************************)
(* PUT /documents/{doc_id}/status as the event loop runs it: the handler   *)
(* gives up control at await db.documents.find_one and at                  *)
(* await db.documents.update_one.  The database applies the read, the      *)
(* handler builds update_data from what it read, and the database applies  *)
(* the write, with the steps of other requests in between.                 *)
(***************************************************************************)
\* No request was answered yet: the requests that are under way overlap.
NoResponseYet == resp.op = "none"

\* The handler up to the read: the document as the database holds it now.
\* Requests start while none was answered, so that all of them overlap.
update_document_status_find_one ==
    /\ NoResponseYet
    /\ \E s \in Slots : inflight[s] = Idle
    /\ \E tok \in PresentableTokens(now) :
        LET auth == get_current_user(tok, now)
            current_user == auth.user
        IN  IF ~auth.ok THEN Unauthenticated(auth)
            ELSE \E status \in StatusInputs,
                    doc_id \in {d["id"] : d \in Range(documents)} \cup {UnknownId} :
                LET doc == find_one(documents, "id", doc_id)
                IN  IF status \notin valid_statuses
                    THEN StatusRaise(400, "Invalid status", status, doc_id)
                    ELSE IF doc = NoDocument
                    THEN StatusRaise(404, "Document not found", status, doc_id)
                    ELSE /\ inflight' = [inflight EXCEPT ![FreeSlot] =
                                [pc |-> "find_one", status |-> status, doc_id |-> doc_id,
                                 doc |-> doc, current_user |-> current_user]]
                         /\ UNCHANGED <<users, clinics, documents, risks, audits, api_key, now, resp, tokens>>

\* Lines 478 to 490: update_data from the document that was read.
update_document_status_update_data ==
    \E s \in Slots :
        /\ inflight[s].pc = "find_one"
        /\ LET r == inflight[s]
           IN  \E t1 \in utcnow(now) :
               \E t2 \in IF r.status = PUBLISHED THEN utcnow(t1) ELSE {t1} :
               \E t3 \in IF r.status = PUBLISHED THEN utcnow(t2) ELSE {t1} :
                  /\ inflight' = [inflight EXCEPT ![s] =
                         [pc |-> "update_one", status |-> r.status, doc_id |-> r.doc_id,
                          doc |-> r.doc, current_user |-> r.current_user,
                          readings |-> <<t1, t2, t3>>,
                          update_data |-> status_update_data(r.status, r.doc, r.current_user, t1, t2, t3)]]
                  /\ now' = t3
                  /\ UNCHANGED <<users, clinics, documents, risks, audits, api_key, resp, tokens>>

\* The write, applied to the document as the database holds it now, and
\* the response.
update_document_status_update_one ==
    \E s \in Slots :
        /\ inflight[s].pc = "update_one"
        /\ LET r == inflight[s]
           IN  /\ documents' = update_one(documents, r.doc_id, r.update_data)
               /\ resp' = [op |-> "update_document_status",
                           code |-> 200,
                           detail |-> "Document status updated",
                           status |-> r.status,
                           doc_id |-> r.doc_id,
                           actor |-> r.current_user["id"],
                           doc |-> r.doc]
               /\ inflight' = [inflight EXCEPT ![s] = Idle]
               /\ UNCHANGED <<users, clinics, risks, audits, api_key, now, tokens>>

(***************************************************************************)
(* POST /documents/{doc_id}/audit                                          *)
(***************************************************************************)
\* Mutant: the record written with the document_id that audit_document
\* returned.
new_audit_unbound(audit_id, doc_id, audit_result, current_user, t) ==
    [id |-> audit_id,
     document_id |-> <<>>,
     score |-> audit_result.score,
     compliance_issues |-> audit_result.compliance_issues,
     recommendations |-> audit_result.recommendations,
     racgp_coverage |-> audit_result.racgp_coverage,
     audited_by |-> current_user["id"],
     audited_at |-> t]

\* audit_doc of audit_document_endpoint
new_audit(audit_id, doc_id, audit_result, current_user, t) ==
    [id |-> audit_id,
     document_id |-> doc_id,
     score |-> audit_result.score,
     compliance_issues |-> audit_result.compliance_issues,
     recommendations |-> audit_result.recommendations,
     racgp_coverage |-> audit_result.racgp_coverage,
     audited_by |-> current_user["id"],
     audited_at |-> t]

audit_document_endpoint ==
    \E tok \in PresentableTokens(now) :
        LET auth == get_current_user(tok, now)
            current_user == auth.user
        IN  IF ~auth.ok THEN Unauthenticated(auth)
            ELSE \E doc_id \in {d["id"] : d \in Range(documents)} \cup {UnknownId},
                    reply \in AIReplies \cup {AIFailure} :
                LET doc == find_one(documents, "id", doc_id)
                    audited == audit_document(doc["content"], doc["jurisdiction"],
                                              reply)
                    audit_result == [audited.result EXCEPT !.document_id = doc_id]
                IN  IF doc = NoDocument
                    THEN Raise("audit_document_endpoint", 404, "Document not found")
                    ELSE IF ~audited.ok
                    THEN Raise("audit_document_endpoint", audited.code,
                               audited.detail)
                    ELSE /\ RecordCount < MaxRecords
                         /\ \E t \in utcnow(now) :
                           /\ audits' = Append(audits,
                                  new_audit(uuid4("a", audits), doc_id, audit_result,
                                            current_user, t))
                           /\ now' = t
                           /\ resp' = [op |-> "audit_document_endpoint",
                                       code |-> 200, detail |-> "",
                                       doc_id |-> doc_id,
                                       actor |-> current_user["id"],
                                       result |-> audit_result]
                           /\ UNCHANGED <<users, clinics, documents, risks, api_key, tokens, inflight>>

(***************************************************************************)
(* POST /risks and GET /risks                                              *)
(***************************************************************************)
\* The severities and likelihoods a request can carry: in and out of the
\* range of RiskBase.
SeverityInputs == {0, 1, 5}
LikelihoodInputs == {1, 5, 6}

\* Mutant: the lower limits off by one.
risk_fields_valid_from_zero(severity, likelihood) ==
    /\ severity >= 0 /\ severity <= 5
    /\ likelihood >= 0 /\ likelihood <= 5

\* severity: int = Field(..., ge=1, le=5), and likelihood the same.
risk_fields_valid(severity, likelihood) ==
    /\ severity >= 1 /\ severity <= 5
    /\ likelihood >= 1 /\ likelihood <= 5

\* risk_doc of create_risk
new_risk(risk_id, severity, likelihood, clinic_id, current_user, t1, t2) ==
    [id |-> risk_id,
     title |-> "Test Clinical Risk",
     description |-> "A test risk",
     category |-> "clinical",
     severity |-> severity,
     likelihood |-> likelihood,
     mitigation_plan |-> NULL,
     clinic_id |-> clinic_id,
     risk_score |-> severity * likelihood,
     status |-> "open",
     owner_id |-> current_user["id"],
     linked_docs |-> <<>>,
     created_at |-> t1,
     updated_at |-> t2]

create_risk ==
    \E tok \in PresentableTokens(now) :
        LET auth == get_current_user(tok, now)
            current_user == auth.user
        IN  IF ~auth.ok THEN Unauthenticated(auth)
            ELSE \E severity \in SeverityInputs, likelihood \in LikelihoodInputs :
                IF ~risk_fields_valid(severity, likelihood)
                THEN /\ resp' = [op |-> "create_risk", code |-> 422,
                                 detail |-> "validation error",
                                 severity |-> severity,
                                 likelihood |-> likelihood]
                     /\ UNCHANGED <<users, clinics, documents, risks, audits,
                                    api_key, now, tokens, inflight>>
                ELSE /\ RecordCount < MaxRecords
                     /\ \E clinic_id \in ClinicIdInputs \cup {<<"c", "9">>},
                           t1 \in utcnow(now) :
                        \E t2 \in utcnow(t1) :
                           LET risk_doc == new_risk(uuid4("r", risks), severity,
                                               likelihood, clinic_id, current_user,
                                               t1, t2)
                           IN  /\ risks' = Append(risks, risk_doc)
                               /\ now' = t2
                               /\ resp' = [op |-> "create_risk", code |-> 200,
                                           detail |-> "",
                                           severity |-> severity,
                                           likelihood |-> likelihood,
                                           risk |-> risk_doc]
                               /\ UNCHANGED <<users, clinics, documents, audits,
                                              api_key, tokens, inflight>>

\* Mutant: the cursor not sorted.
find_risks_unsorted(query) == to_list(find(risks, query), ListLimit)

\* db.risks.find(query).sort("risk_score", -1).to_list(100)
find_risks(query) == to_list(sort_desc(find(risks, query), "risk_score"), ListLimit)

get_risks ==
    \E tok \in PresentableTokens(now) :
        LET auth == get_current_user(tok, now)
            current_user == auth.user
        IN  IF ~auth.ok THEN Unauthenticated(auth)
            ELSE \E clinic_id \in {NULL} \cup ClinicIdInputs :
                /\ resp' = [op |-> "get_risks", code |-> 200, detail |-> "",
                            clinic_id |-> clinic_id,
                            caller |-> current_user["id"],
                            risks |-> find_risks(clinic_scope(clinic_id,
                                                              current_user))]
                /\ UNCHANGED <<users, clinics, documents, risks, audits,
                               api_key, now, tokens, inflight>>

(***************************************************************************)
(* The application.                                                        *)
(***************************************************************************)
Init ==
    /\ users = <<>>
    /\ clinics = <<>>
    /\ documents = <<>>
    /\ risks = <<>>
    /\ audits = <<>>
    /\ api_key \in BOOLEAN
    /\ now = 0
    /\ resp = [op |-> "none", code |-> 0, detail |-> ""]
    /\ tokens = {}
    /\ inflight = [s \in Slots |-> Idle]

Next ==
    \/ register
    \/ create_clinic
    \/ generate_document
    \/ upload_document
    \/ get_documents
    \/ update_document_status
    \/ audit_document_endpoint
    \/ create_risk
    \/ get_risks

Spec == Init /\ [][Next]_vars

\* The document handlers, with the registration and the clinic they need.
NextDocs ==
    \/ register
    \/ create_clinic
    \/ generate_document
    \/ upload_document
    \/ get_documents
    \/ update_document_status
    \/ audit_document_endpoint

SpecDocs == Init /\ [][NextDocs]_vars

\* Two registered users and the document that the first of them uploaded.
RegisteredUsers ==
    LET first == new_user(uuid4("u", <<>>), "a@x.org", NULL, hash_password("pw", 1), 0)
    IN  <<first, new_user(uuid4("u", <<first>>), "b@x.org", NULL, hash_password("pw", 1), 0)>>

UploadedDocument ==
    LET file == [filename |-> <<"f">>, size |-> 3, text |-> <<"a", "b">>]
        form == [category |-> "policy", jurisdiction |-> "national", clinic_id |-> <<"c", "0">>]
    IN  uploaded_doc(uuid4("d", <<>>), file, form, RegisteredUsers[1], 0, 0)

\* The document after the second user published it.
PublishedDocument ==
    set_fields(UploadedDocument, status_update_data(PUBLISHED, UploadedDocument, RegisteredUsers[2], 0, 0, 0))

\* The database after two registrations and one upload, with the document
\* as uploaded or as published.
InitStatus ==
    /\ users = RegisteredUsers
    /\ clinics = <<>>
    /\ documents \in {<<UploadedDocument>>, <<PublishedDocument>>}
    /\ risks = <<>>
    /\ audits = <<>>
    /\ api_key \in BOOLEAN
    /\ now = 0
    /\ resp = [op |-> "none", code |-> 0, detail |-> ""]
    /\ tokens = {}
    /\ inflight = [s \in Slots |-> Idle]

\* Status updates that overlap.
NextStatus ==
    \/ update_document_status_find_one
    \/ update_document_status_update_data
    \/ update_document_status_update_one

SpecStatus == InitStatus /\ [][NextStatus]_vars

\* Registrations that overlap.
NextRegister ==
    \/ register_find_one
    \/ register_insert_one

SpecRegister == Init /\ [][NextRegister]_vars

\* The risk register, with the registration it needs.
NextRisks ==
    \/ register
    \/ create_risk
    \/ get_risks

SpecRisks == Init /\ [][NextRisks]_vars

\* The accounts: registration, and the clinic creation that rewrites a user.
NextAuth ==
    \/ register
    \/ create_clinic

SpecAuth == Init /\ [][NextAuth]_vars

\* A user whose account was deactivated in the database: no handler
\* writes is_active after the registration, and login reads it.
DeactivatedUser ==
    [new_user(<<"u", "1">>, "a@x.org", NULL, hash_password("pw", 1), 0) EXCEPT !["is_active"] = FALSE]

\* The database as the application finds it: empty, or with an account
\* that was deactivated there.
InitAccounts ==
    /\ users \in {<<>>, <<DeactivatedUser>>}
    /\ clinics = <<>>
    /\ documents = <<>>
    /\ risks = <<>>
    /\ audits = <<>>
    /\ api_key \in BOOLEAN
    /\ now = 0
    /\ resp = [op |-> "none", code |-> 0, detail |-> ""]
    /\ tokens = {}
    /\ inflight = [s \in Slots |-> Idle]

\* The accounts with login and the client that keeps its tokens.
NextLogin ==
    \/ register
    \/ login
    \/ keep_token
    \/ create_clinic

SpecLogin == InitAccounts /\ [][NextLogin]_vars

\* The clinics, with the two writes of create_clinic as separate steps of
\* requests that run together.
NextClinics ==
    \/ register
    \/ create_clinic_insert_one
    \/ create_clinic_update_one

SpecClinics == Init /\ [][NextClinics]_vars

\* create_document_hash on its own.  The characters of an id: str(uuid4())
\* is made of hexadecimal digits and hyphens and always has the same
\* length; a content can hold any of these characters.
IdChars == {"a", "1"}

RECURSIVE Strings(_, _)
\* The strings of length n over the characters S.
Strings(S, n) ==
    IF n = 0 THEN {<<>>}
    ELSE {<<c>> \o w : c \in S, w \in Strings(S, n - 1)}

\* The values of str(uuid.uuid4()).
uuid_strings == Strings(IdChars, IdWidth)

\* The contents of documents.
Contents == UNION {Strings(IdChars, n) : n \in 0..MaxText}

\* Two signatures computed at one time, of any two contents by any two
\* users.
create_document_hashes ==
    \E content_a \in Contents, content_b \in Contents,
       user_a \in uuid_strings, user_b \in uuid_strings, t \in utcnow(now) :
        /\ resp' = [op |-> "create_document_hash", code |-> 200, detail |-> "",
                    a |-> [content |-> content_a, user_id |-> user_a],
                    b |-> [content |-> content_b, user_id |-> user_b],
                    timestamp |-> t,
                    hash_a |-> create_document_hash(content_a, user_a, t),
                    hash_b |-> create_document_hash(content_b, user_b, t)]
        /\ now' = t
        /\ UNCHANGED <<users, clinics, documents, risks, audits, api_key, tokens, inflight>>

NextHash ==
    \/ create_document_hashes

SpecHash == Init /\ [][NextHash]_vars

\* The title extraction on its own.  The texts the AI can return: a
\* beginning and an end of any characters of headings, sentences and
\* emphasis, with letters in between that bring the first sentence to
\* about TitleLimit characters.
TitleChars == {"#", " ", "\n", "a", "*", "."}

ShortTexts == UNION {Strings(TitleChars, n) : n \in 0..MaxText}

Letters(n) == [i \in 1..n |-> "a"]

TitleInputs ==
    {head \o Letters(n) \o tail : head \in ShortTexts, tail \in ShortTexts,
                                  n \in {0, TitleLimit - MaxText, TitleLimit}}

\* Lines 402 to 413 of generate_document, applied to one text.
extract_title ==
    /\ resp.op = "none"
    /\ \E ai_content \in TitleInputs :
          resp' = [op |-> "extracted_title", code |-> 200, detail |-> "",
                   ai_content |-> ai_content, title |-> extracted_title(ai_content)]
    /\ UNCHANGED <<users, clinics, documents, risks, audits, api_key, now, tokens, inflight>>

NextTitle ==
    \/ extract_title

SpecTitle == Init /\ [][NextTitle]_vars

\* The tokens: their issue by register and login, the client that keeps
\* and presents them, the passing of time, and the handlers that write
\* users in between.
NextTokens ==
    \/ register
    \/ login
    \/ keep_token
    \/ get_current_user_info
    \/ Elapse
    \/ create_clinic

SpecTokens == Init /\ [][NextTokens]_vars

(***************************************************************************)
(* The error taxonomy of the specification, read off a response: the       *)
(* status code of the HTTPException and, where two kinds share a code,     *)
(* its detail.                                                             *)
(***************************************************************************)
ErrorKind(r) ==
    CASE r.code = 200 -> "OK"
      [] r.code = 401 -> "Unauthorized"
      [] r.code = 404 -> "NotFound"
      [] r.code = 400 /\ r.detail = "Email already registered" -> "Conflict"
      [] r.code = 400 -> "InvalidArgument"
      [] r.code = 422 -> "InvalidArgument"
      [] r.code = 500 /\ r.detail = "AI service not configured" -> "ServiceUnavailable"
      [] OTHER -> "ExternalFailure"

SignatureFields == {"signature_hash", "signed_by", "signed_at"}

\* All three signature fields are stored, and none is null.
Signed(d) == SignatureFields \subseteq DOMAIN d

\* None of the signature fields is stored.
Unsigned(d) == SignatureFields \cap DOMAIN d = {}

\* The four recognised status values, as the specification lists them.
FourStatuses == {"draft", "review", "published", "archived"}

\* The position in the collection of the document with the given id, 0
\* when there is none.
IndexOf(coll, id) ==
    LET hits == {i \in 1..Len(coll) : coll[i]["id"] = id}
    IN  IF hits = {} THEN 0 ELSE CHOOSE i \in hits : \A j \in hits : i <= j

\* The last response is a successful setStatus.
StatusSet == resp.op = "update_document_status" /\ resp.code = 200

(***************************************************************************)
(* C1: in every reachable state, every document has its signature fields   *)
(* populated if and only if its status is published.                       *)
(***************************************************************************)
C1_SignedIffPublished ==
    \A i \in 1..Len(documents) :
        Signed(documents[i]) <=> documents[i]["status"] = "published"

(***************************************************************************)
(* C2: a signed document's signature_hash equals create_document_hash over *)
(* its stored content, its stored signed_by and its stored signed_at.      *)
(***************************************************************************)
C2_HashOverStoredFields ==
    \A i \in 1..Len(documents) :
        Signed(documents[i]) =>
            documents[i]["signature_hash"] =
                sha256(documents[i]["content"] \o documents[i]["signed_by"]
                       \o isoformat(documents[i]["signed_at"]))

(***************************************************************************)
(* C3: a successful setStatus sets the status to the new status and        *)
(* refreshes updated_at to a reading of the clock taken during the         *)
(* request; if the new status is published it writes the three signature   *)
(* fields, with signed_by the actor; otherwise it leaves the signature     *)
(* fields as they were, present or absent.                                 *)
(***************************************************************************)
C3_Step ==
    (resp'.op = "update_document_status" /\ resp'.code = 200) =>
        LET i == IndexOf(documents, resp'.doc_id)
            before == documents[i]
            after == documents'[i]
        IN  /\ i > 0
            /\ Len(documents') = Len(documents)
            /\ after["status"] = resp'.status
            /\ after["updated_at"] >= now /\ after["updated_at"] <= now'
            /\ IF resp'.status = "published"
               THEN /\ Signed(after)
                    /\ after["signed_by"] = resp'.actor
                    /\ after["signed_at"] >= now /\ after["signed_at"] <= now'
                    /\ \E t \in now..now' :
                          after["signature_hash"] =
                              sha256(before["content"] \o resp'.actor \o isoformat(t))
               ELSE /\ SignatureFields \cap DOMAIN after =
                          SignatureFields \cap DOMAIN before
                    /\ \A k \in SignatureFields \cap DOMAIN before :
                          after[k] = before[k]

C3_SetStatusEffect == [][C3_Step]_vars

\* A document that was published by the second user and then moved to
\* draft keeps the signature of that publish.
C3_Witness ==
    /\ StatusSet
    /\ resp.status = "draft"
    /\ \E i \in 1..Len(documents) :
          /\ documents[i]["id"] = resp.doc_id
          /\ documents[i]["status"] = "draft"
          /\ Signed(documents[i])
          /\ documents[i]["signed_by"] # documents[i]["created_by"]

(***************************************************************************)
(* C4: setStatus with a status outside the four recognised values fails    *)
(* with InvalidArgument, whether or not the document exists; with a        *)
(* recognised status and an absent document it fails with NotFound; a      *)
(* failed setStatus changes no document.                                   *)
(***************************************************************************)
C4_Step ==
    resp'.op = "update_document_status" =>
        /\ resp'.status \notin FourStatuses =>
              ErrorKind(resp') = "InvalidArgument"
        /\ (resp'.status \in FourStatuses
              /\ IndexOf(documents, resp'.doc_id) = 0) =>
              ErrorKind(resp') = "NotFound"
        /\ resp'.code # 200 => documents' = documents

C4_SetStatusErrors == [][C4_Step]_vars

\* An unrecognised status for a document that does not exist was answered
\* while a document is stored.
C4_Witness ==
    /\ resp.op = "update_document_status"
    /\ resp.status \notin FourStatuses
    /\ IndexOf(documents, resp.doc_id) = 0
    /\ resp.code = 400
    /\ Len(documents) > 0

(***************************************************************************)
(* C5: for every stored document and every target status among the four,   *)
(* whatever the current status, setStatus succeeds and leaves the document *)
(* in the target status.                                                   *)
(***************************************************************************)
C5_Step ==
    (resp'.op = "update_document_status"
        /\ resp'.status \in FourStatuses
        /\ IndexOf(documents, resp'.doc_id) > 0) =>
        /\ resp'.code = 200
        /\ documents'[IndexOf(documents, resp'.doc_id)]["status"] = resp'.status

C5_AnyToAny == [][C5_Step]_vars

\* A document that carries a signature, so was published, is in review
\* after a successful setStatus to review: a backward transition.
C5_Witness ==
    /\ StatusSet
    /\ resp.status = "review"
    /\ \E i \in 1..Len(documents) :
          /\ documents[i]["id"] = resp.doc_id
          /\ documents[i]["status"] = "review"
          /\ Signed(documents[i])

(***************************************************************************)
(* C6: every document that enters the collection, by generation or by      *)
(* upload, enters at the end with status draft, version 1 and no signature *)
(* field; a successful generation or upload inserts exactly one document   *)
(* and a failed one inserts none.                                          *)
(***************************************************************************)
C6_Step ==
    /\ Len(documents') >= Len(documents)
    /\ \A i \in (Len(documents) + 1)..Len(documents') :
          /\ documents'[i]["status"] = "draft"
          /\ documents'[i]["version"] = 1
          /\ Unsigned(documents'[i])
    /\ resp'.op \in {"generate_document", "upload_document"} =>
          IF resp'.code = 200
          THEN /\ Len(documents') = Len(documents) + 1
               /\ documents'[Len(documents')]["id"] = resp'.id
          ELSE documents' = documents

C6_CreatedAsDraft == [][C6_Step]_vars

\* A generation succeeded and its document is stored as an unsigned draft
\* of version 1.
C6_Witness ==
    /\ resp.op = "generate_document"
    /\ resp.code = 200
    /\ \E i \in 1..Len(documents) :
          /\ documents[i]["id"] = resp.id
          /\ documents[i]["status"] = "draft"
          /\ documents[i]["version"] = 1
          /\ Unsigned(documents[i])

(***************************************************************************)
(* C7: a stored document keeps every field other than status, updated_at   *)
(* and the signature fields for ever, its version staying 1; setStatus     *)
(* changes the document it names only, and no handler other than the two   *)
(* that create documents and setStatus changes the collection at all.      *)
(***************************************************************************)
C7_Step ==
    /\ Len(documents') >= Len(documents)
    /\ \A i \in 1..Len(documents) :
          /\ DOMAIN documents[i] \subseteq DOMAIN documents'[i]
          /\ \A k \in DOMAIN documents[i] \
                        ({"status", "updated_at"} \cup SignatureFields) :
                documents'[i][k] = documents[i][k]
          /\ documents'[i]["version"] = 1
    /\ resp'.op = "update_document_status" =>
          \A i \in 1..Len(documents) :
              documents[i]["id"] # resp'.doc_id => documents'[i] = documents[i]
    /\ resp'.op \notin {"update_document_status", "generate_document",
                        "upload_document"} =>
          documents' = documents

C7_ContentImmutable == [][C7_Step]_vars

\* A document has been through a status change that refreshed updated_at
\* past its creation time, and an audit record of it is stored.
C7_Witness ==
    \E i \in 1..Len(documents) :
        /\ documents[i]["updated_at"] > documents[i]["created_at"]
        /\ documents[i]["status"] # "draft"
        /\ \E j \in 1..Len(audits) :
              audits[j]["document_id"] = documents[i]["id"]

(***************************************************************************)
(* C8: every stored risk has severity and likelihood in 1..5 and           *)
(* risk_score = severity * likelihood, in 1..25; createRisk with a         *)
(* severity or likelihood outside 1..5 is rejected and stores nothing; no  *)
(* step changes or removes a stored risk.                                  *)
(***************************************************************************)
C8_Step ==
    /\ \A i \in 1..Len(risks') :
          /\ risks'[i]["severity"] \in 1..5
          /\ risks'[i]["likelihood"] \in 1..5
          /\ risks'[i]["risk_score"] =
                risks'[i]["severity"] * risks'[i]["likelihood"]
          /\ risks'[i]["risk_score"] \in 1..25
    /\ Len(risks') >= Len(risks)
    /\ \A i \in 1..Len(risks) : risks'[i] = risks[i]
    /\ (resp'.op = "create_risk"
          /\ (resp'.severity \notin 1..5 \/ resp'.likelihood \notin 1..5)) =>
          /\ resp'.code # 200
          /\ risks' = risks

C8_RiskScore == [][C8_Step]_vars

\* A risk of score 25 is stored and a later createRisk with an
\* out-of-range value was rejected.
C8_Witness ==
    /\ resp.op = "create_risk"
    /\ resp.code = 422
    /\ \E i \in 1..Len(risks) :
          risks[i]["severity"] = 5 /\ risks[i]["risk_score"] = 25

(***************************************************************************)
(* C9: listRisks returns the stored risks of the clinic the request names, *)
(* or else of the clinic the caller is affiliated with, each once, and in  *)
(* an order in which every risk's risk_score is at least that of the risk  *)
(* after it.                                                               *)
(***************************************************************************)
\* The stored user that made the last request.
Caller == users[IndexOf(users, resp.caller)]

C9_ListedDescending ==
    resp.op = "get_risks" =>
        LET listed == resp.risks
            scoped == Truthy(resp.clinic_id) \/ Truthy(Caller["clinic_id"])
            clinic == IF Truthy(resp.clinic_id) THEN resp.clinic_id
                      ELSE Caller["clinic_id"]
            wanted == {i \in 1..Len(risks) :
                          scoped => risks[i]["clinic_id"] = clinic}
        IN  /\ \A i \in 1..(Len(listed) - 1) :
                  listed[i]["risk_score"] >= listed[i + 1]["risk_score"]
            /\ Len(listed) = Min(Cardinality(wanted), ListLimit)
            /\ \A i \in 1..Len(listed) : \E j \in wanted : listed[i] = risks[j]
            /\ \A i, j \in 1..Len(listed) :
                  listed[i]["id"] = listed[j]["id"] => i = j

\* Two risks of one clinic were created in ascending order of score and a
\* listing scoped by the caller's affiliation returned both.
C9_Witness ==
    /\ resp.op = "get_risks"
    /\ ~Truthy(resp.clinic_id)
    /\ Truthy(Caller["clinic_id"])
    /\ Len(resp.risks) = 2
    /\ Len(risks) = 2
    /\ risks[1]["risk_score"] < risks[2]["risk_score"]

(***************************************************************************)
(* C10: register with an email that a stored user has fails with Conflict  *)
(* and leaves the users as they were; register with any other email        *)
(* appends exactly one user, active and with that email, and returns a     *)
(* token signed by the server for that user.                               *)
(***************************************************************************)
C10_Step ==
    resp'.op = "register" =>
        IF \E i \in 1..Len(users) : users[i]["email"] = resp'.email
        THEN /\ ErrorKind(resp') = "Conflict"
             /\ users' = users
        ELSE /\ resp'.code = 200
             /\ Len(users') = Len(users) + 1
             /\ SubSeq(users', 1, Len(users)) = users
             /\ users'[Len(users')]["email"] = resp'.email
             /\ users'[Len(users')]["is_active"]
             /\ resp'.access_token.user_id = users'[Len(users')]["id"]
             /\ resp'.access_token.key = JWT_SECRET
             /\ \A i \in 1..Len(users) :
                   users[i]["id"] # users'[Len(users')]["id"]

C10_RegisterConflict == [][C10_Step]_vars

\* A second registration of a stored email was refused.
C10_Witness ==
    /\ resp.op = "register"
    /\ resp.code = 400
    /\ \E i \in 1..Len(users) : users[i]["email"] = resp.email

(***************************************************************************)
(* C11: login fails with Unauthorized when no stored user has the email,   *)
(* when the password is not the one the stored digest was computed from,   *)
(* or when the account is not active, and succeeds otherwise with a token  *)
(* the server signed for that user; no login changes the users.            *)
(***************************************************************************)
C11_Step ==
    resp'.op = "login" =>
        LET hits == {i \in 1..Len(users) : users[i]["email"] = resp'.email}
            u == users[CHOOSE i \in hits : \A j \in hits : i <= j]
            fails == \/ hits = {}
                     \/ u["password_hash"][3] # resp'.password
                     \/ ~u["is_active"]
        IN  /\ fails => ErrorKind(resp') = "Unauthorized"
            /\ ~fails => /\ resp'.code = 200
                         /\ resp'.access_token.user_id = u["id"]
                         /\ resp'.access_token.key = JWT_SECRET
            /\ users' = users

C11_LoginUnauthorized == [][C11_Step]_vars

\* A login with a wrong password was refused for a user whose client
\* holds the token of an earlier login that succeeded.
C11_Witness ==
    /\ resp.op = "login"
    /\ resp.code = 401
    /\ resp.password = "wrong"
    /\ \E i \in 1..Len(users), k \in tokens :
          /\ users[i]["email"] = resp.email
          /\ k.op = "login"
          /\ k.access_token.user_id = users[i]["id"]

(***************************************************************************)
(* C12: a token that register or login issued at time T is one the server  *)
(* signed, for the user it was issued to; presented at a time before       *)
(* T + 7 days it is accepted, and presented at a time after T + 7 days it  *)
(* is rejected with Unauthorized, whatever was done in between.            *)
(***************************************************************************)
\* The step presents a token at GET /auth/me: the response is one of that
\* handler, and no time passes.
Presented ==
    /\ resp'.op \in {"get_current_user", "get_current_user_info"}
    /\ "token" \in DOMAIN resp'
    /\ now' = now

\* The presented token is answered with the user it names.
Accepted == resp'.code = 200 /\ resp'.user["id"] = resp'.token.user_id

C12_Step ==
    Presented =>
        \A k \in tokens :
            k.access_token = resp'.token =>
                LET T == k.issued_at
                IN  /\ now < T + timedelta(TokenDays) => Accepted
                    /\ now > T + timedelta(TokenDays) => ErrorKind(resp') = "Unauthorized"

C12_AmendedStep ==
    /\ (resp'.op \in {"register", "login"} /\ resp'.code = 200 /\ resp' # resp) =>
          /\ resp'.access_token.key = JWT_SECRET
          /\ resp'.issued_at >= now /\ resp'.issued_at <= now'
    /\ Presented =>
          \A k \in tokens :
              k.access_token = resp'.token =>
                  LET T == k.issued_at
                  IN  /\ now + TicksPerSecond <= T + timedelta(TokenDays) => Accepted
                      /\ now >= T + timedelta(TokenDays) + TicksPerSecond => ErrorKind(resp') = "Unauthorized"

C13_Step ==
    (resp'.op = "get_current_user" /\ now' = now /\ tokens' = tokens) =>
        /\ ErrorKind(resp') = "Unauthorized"
        /\ UNCHANGED <<users, clinics, documents, risks, audits>>

C13_BadTokenUnauthorized == [][C13_Step]_vars

(***************************************************************************)
(* C14: create_clinic by user u first appends a clinic owned by u and      *)
(* leaves the users alone; its second write, a separate step, sets the     *)
(* clinic_id of u to the id of that clinic and changes no other user;      *)
(* after it the clinic is stored with owner u and u is affiliated to it.   *)
(* No step changes a stored clinic, and a request of a stored user is      *)
(* never refused, whatever the name.                                       *)
(***************************************************************************)
C14_Step ==
    /\ Len(clinics') >= Len(clinics)
    /\ SubSeq(clinics', 1, Len(clinics)) = clinics
    /\ Len(clinics') > Len(clinics) =>
          /\ Len(clinics') = Len(clinics) + 1
          /\ users' = users
          /\ \E s \in Slots :
                /\ inflight[s] = Idle
                /\ inflight'[s].pc = "create_clinic"
                /\ inflight'[s].clinic_doc = clinics'[Len(clinics')]
                /\ inflight'[s].user_id = clinics'[Len(clinics')]["owner_id"]
                /\ \E i \in 1..Len(users) : users[i]["id"] = inflight'[s].user_id
    /\ resp'.op = "create_clinic" => resp'.code = 200
    /\ (\E s \in Slots : inflight[s].pc = "create_clinic" /\ inflight'[s] = Idle) =>
          LET c == resp'.clinic
          IN  /\ clinics' = clinics
              /\ \E i \in 1..Len(clinics') : clinics'[i] = c
              /\ Len(users') = Len(users)
              /\ \E i \in 1..Len(users) : users[i]["id"] = c["owner_id"]
              /\ \A i \in 1..Len(users) :
                    IF users[i]["id"] = c["owner_id"]
                    THEN users'[i] = [users[i] EXCEPT !["clinic_id"] = c["id"]]
                    ELSE users'[i] = users[i]

C14_ClinicThenAffiliation == [][C14_Step]_vars

\* A request of a user has made both its writes and the user is affiliated
\* to its clinic; a second request of that user with the same name has
\* stored its clinic and has not yet written the affiliation.
C14_Witness ==
    /\ resp.op = "create_clinic"
    /\ Len(clinics) = 2
    /\ resp.clinic = clinics[1]
    /\ clinics[1]["name"] = clinics[2]["name"]
    /\ clinics[1]["owner_id"] = clinics[2]["owner_id"]
    /\ \E i \in 1..Len(users) :
          /\ users[i]["id"] = resp.clinic["owner_id"]
          /\ users[i]["clinic_id"] = resp.clinic["id"]
    /\ \E s \in Slots :
          /\ inflight[s].pc = "create_clinic"
          /\ inflight[s].clinic_doc = clinics[2]

(***************************************************************************)
(* C15: no step changes or removes a stored audit record; an audit that    *)
(* succeeds appends exactly one, of the document the request names and     *)
(* with the caller as auditor, and returns a result with that document_id; *)
(* an audit that fails appends none; no other step appends one.            *)
(***************************************************************************)
C15_Step ==
    /\ Len(audits') >= Len(audits)
    /\ SubSeq(audits', 1, Len(audits)) = audits
    /\ Len(audits') > Len(audits) =>
          (resp'.op = "audit_document_endpoint" /\ resp'.code = 200)
    /\ resp'.op = "audit_document_endpoint" =>
          IF resp'.code = 200
          THEN /\ Len(audits') = Len(audits) + 1
               /\ IndexOf(documents, resp'.doc_id) > 0
               /\ audits'[Len(audits')]["document_id"] = resp'.doc_id
               /\ audits'[Len(audits')]["audited_by"] = resp'.actor
               /\ resp'.result.document_id = resp'.doc_id
               /\ \A i \in 1..Len(audits) :
                     audits[i]["id"] # audits'[Len(audits')]["id"]
          ELSE audits' = audits

C16_Step ==
    (resp'.op \in {"generate_document", "audit_document_endpoint"}
        /\ resp'.code \notin {200, 404}) =>
        IF api_key THEN ErrorKind(resp') = "ExternalFailure"
        ELSE ErrorKind(resp') = "ServiceUnavailable"

C16_GatewayErrorKinds == [][C16_Step]_vars

(***************************************************************************)
(* C17: at one timestamp, two pairs of a content and a user id that differ *)
(* in the content or in the user id have different signature hashes.       *)
(***************************************************************************)
C17_HashDistinguishes ==
    resp.op = "create_document_hash" =>
        (resp.a # resp.b => resp.hash_a # resp.hash_b)

\* The two pairs differ in both parts, and the second content is the first
\* followed by the first character of the first user id.
C17_Witness ==
    /\ resp.op = "create_document_hash"
    /\ resp.a.user_id # resp.b.user_id
    /\ resp.b.content = resp.a.content \o <<resp.a.user_id[1]>>
    /\ resp.hash_a # resp.hash_b

(***************************************************************************)
(* C18: the title of a text with a heading line is the text of its first   *)
(* heading line without the heading markers; the title of a text with no   *)
(* heading line and a first sentence of more than 100 characters is the    *)
(* first 100 characters of that sentence followed by "...".                *)
(***************************************************************************)
\* The positions at which the lines of s start that begin with "#".
HeadingLines(s) == {p \in 1..Len(s) : (p = 1 \/ s[p - 1] = "\n") /\ s[p] = "#"}

\* The line of s that starts at p, without its newline.
LineAt(s, p) ==
    LET ends == {e \in p..Len(s) : s[e] = "\n"}
    IN  SubSeq(s, p, IF ends = {} THEN Len(s) ELSE (CHOOSE e \in ends : \A f \in ends : e <= f) - 1)

RECURSIVE DropHashes(_)
DropHashes(l) == IF l # <<>> /\ Head(l) = "#" THEN DropHashes(Tail(l)) ELSE l

\* The first heading line of s without its leading "#".
HeadingText(s) ==
    DropHashes(LineAt(s, CHOOSE p \in HeadingLines(s) : \A q \in HeadingLines(s) : p <= q))

\* The text of s before its first ".".
SentenceOf(s) ==
    LET dots == {i \in 1..Len(s) : s[i] = "."}
    IN  SubSeq(s, 1, IF dots = {} THEN Len(s) ELSE (CHOOSE i \in dots : \A j \in dots : i <= j) - 1)

\* The first 100 characters of the first sentence, and the ellipsis.
Truncated(s) == SubSeq(SentenceOf(s), 1, 100) \o <<".", ".", ".">>

\* Without the characters # * _ and backquote, and without the whitespace
\* around what is left.
Cleaned(t) == strip(remove_markup(t))

C18_TitleExtraction ==
    resp.op = "extracted_title" =>
        LET s == resp.ai_content
        IN  /\ HeadingLines(s) # {} => resp.title = Cleaned(HeadingText(s))
            /\ (HeadingLines(s) = {} /\ Len(SentenceOf(s)) > 100) =>
                  resp.title = Truncated(s)

(***************************************************************************)
(* C18, amended: when the first line that begins with "#" has text after   *)
(* its "#" characters, the title is that text without the characters       *)
(* # * _ and backquote and without the whitespace around it; when no line  *)
(* begins with "#" and the first sentence has more than 100 characters,    *)
(* the title is the first 100 characters of the sentence followed by       *)
(* "...", again without those characters and without leading whitespace,   *)
(* so that it is exactly the 100 characters and the ellipsis when those    *)
(* hold none of the characters and do not begin with whitespace.           *)
(***************************************************************************)
C18_TitleExtractionCleaned ==
    resp.op = "extracted_title" =>
        LET s == resp.ai_content
        IN  /\ (HeadingLines(s) # {}
                  /\ \E i \in 1..Len(HeadingText(s)) : HeadingText(s)[i] \notin Whitespace) =>
                  resp.title = Cleaned(HeadingText(s))
            /\ (HeadingLines(s) = {} /\ Len(SentenceOf(s)) > 100) =>
                  /\ resp.title = Cleaned(Truncated(s))
                  /\ (Truncated(s)[1] \notin Whitespace
                        /\ \A i \in 1..100 : Truncated(s)[i] \notin Markup) =>
                        resp.title = Truncated(s)

\* A text without a heading whose first sentence has more than 100
\* characters, an asterisk among the first 100, got a title that is
\* shorter than 103 characters and ends with the ellipsis.
C18_Witness ==
    /\ resp.op = "extracted_title"
    /\ HeadingLines(resp.ai_content) = {}
    /\ Len(SentenceOf(resp.ai_content)) > 100
    /\ \E i \in 1..100 : resp.ai_content[i] = "*"
    /\ Len(resp.title) < 103
    /\ SubSeq(resp.title, Len(resp.title) - 2, Len(resp.title)) = <<".", ".", ".">>

(***************************************************************************)
(* C19.  Two status updates of one document that overlap, each a read of   *)
(* the document followed later by one atomic write of its fields, leave    *)
(* the document as the two requests leave it when they run one after the   *)
(* other in the order of their writes: every write changes the stored      *)
(* document exactly as the whole request does when it reads the document   *)
(* at the moment of its write, with the same clock readings, so the status *)
(* of the last writer stands; and signature_hash, signed_by and signed_at  *)
(* change only in the write of a publish request, which sets all three     *)
(* from its own user and its own readings.                                 *)
(***************************************************************************)
Signature(doc) == [k \in SignatureFields \cap DOMAIN doc |-> doc[k]]

\* The signature that the publish request r writes on the document cur.
SignatureOf(r, cur) ==
    [k \in SignatureFields |->
        IF k = "signature_hash"
        THEN create_document_hash(cur["content"], r.current_user["id"], r.readings[2])
        ELSE IF k = "signed_by" THEN r.current_user["id"]
        ELSE r.readings[3]]

\* The slot s applies its write in this step.
Writes(s) == inflight[s].pc = "update_one" /\ inflight'[s] = Idle

C19_Step ==
    /\ \A s \in Slots : Writes(s) =>
          LET r == inflight[s]
              cur == find_one(documents, "id", r.doc_id)
              after == find_one(documents', "id", r.doc_id)
              serial == status_update_data(r.status, cur, r.current_user,
                                           r.readings[1], r.readings[2], r.readings[3])
          IN  /\ documents' = update_one(documents, r.doc_id, serial)
              /\ after["status"] = r.status
              /\ Signature(after) = IF r.status = PUBLISHED THEN SignatureOf(r, cur)
                                    ELSE Signature(cur)
    /\ \A i \in DOMAIN documents :
          Signature(documents'[i]) # Signature(documents[i]) =>
              \E s \in Slots : /\ Writes(s)
                               /\ inflight[s].status = PUBLISHED
                               /\ inflight[s].doc_id = documents[i]["id"]

C19_LastWriterWins == [][C19_Step]_vars

\* An archive request read the document before it was signed and wrote
\* after the write of a publish request: the document is archived and
\* carries the signature of the publish request.
C19_Witness ==
    /\ resp.op = "update_document_status"
    /\ resp.code = 200
    /\ "doc" \in DOMAIN resp
    /\ resp.status = ARCHIVED
    /\ "signed_by" \notin DOMAIN resp.doc
    /\ LET cur == find_one(documents, "id", resp.doc_id)
       IN  /\ cur["status"] = ARCHIVED
           /\ Signed(cur)

(***************************************************************************)
(* C20.  Under every interleaving of overlapping registrations, each a     *)
(* lookup by email followed later by a separate insert, every reachable    *)
(* state holds at most one user record per email.                          *)
(***************************************************************************)
C20_OneUserPerEmail ==
    \A i, j \in DOMAIN users : users[i]["email"] = users[j]["email"] => i = j

====
